---- MODULE Spec2Model ----
(***************************************************************************)
(* node-onvif: the WS-Discovery probe engine (node-onvif.js) and the SOAP  *)
(* transport with its HTTP authenticator (soap.js, http-auth.js), as state *)
(* machines.  One step of the model is one turn of the event loop: a       *)
(* callback together with the promise reactions and next-tick callbacks it *)
(* schedules, which Node runs to completion before any other timer or I/O  *)
(* callback.                                                               *)
(***************************************************************************)
EXTENDS Integers, Sequences, FiniteSets, TLC

(***************************************************************************)
(* Bounds and program constants                                            *)
(***************************************************************************)
MaxTypes == 2

DISCOVERY_RETRIES_MAX == 3

\* stopAllProbes calls made in one turn of the event loop
MaxStopCalls == 2

\* transport calls made one after the other
MaxCalls == 2

\* how far the local clock advances
MaxClock == 2

\* how many scope URIs a ProbeMatch lists
MaxScopes == 2

Probes == {"p1", "p2"}

\* the default deviceTypes of startProbe
DefaultDeviceTypes == <<"NetworkVideoTransmitter", "Device", "NetworkVideoDisplay">>

\* the device-type lists startProbe is called with: the first n default types
DeviceTypeLists == {SubSeq(DefaultDeviceTypes, 1, n) : n \in 0..MaxTypes}

(***************************************************************************)
(* Inbound datagrams.  A datagram is either not well-formed XML or the     *)
(* tree the XML parser yields.  XAddrs and Scopes are whitespace-separated *)
(* lists on the wire: a wire string is the sequence of its tokens, the     *)
(* empty string being <<>>.  A scope URI is its onvif.org category and the *)
(* path segments that follow it, a segment being a sequence of characters. *)
(***************************************************************************)
ScopeName == [prefix |-> "name", path |-> << <<"F", "_", "B">> >>]
ScopeHardware == [prefix |-> "hardware", path |-> << <<"X", "1">> >>]
ScopeLocation == [prefix |-> "location", path |-> << <<"c">>, <<"d">> >>]
ScopeOther == [prefix |-> "other", path |-> << <<"z">> >>]

\* onvif://www.onvif.org/name/ with nothing after the prefix
ScopeNameBare == [prefix |-> "name", path |-> << <<>> >>]
\* onvif://www.onvif.org/name/a_/b_c
ScopeNameDeep == [prefix |-> "name", path |-> << <<"a", "_">>, <<"b", "_", "c">> >>]
ScopeHardwareOther == [prefix |-> "hardware", path |-> << <<"Y", "_", "2">> >>]

AllKeys == {"EndpointReference", "XAddrs", "Scopes", "Types"}

\* keys: the children the ProbeMatch element has
Match(keys, urn, xaddrs, scopes) ==
    [xml |-> "tree", ProbeMatches |-> TRUE, keys |-> keys, Address |-> urn,
     XAddrs |-> xaddrs, Scopes |-> scopes, Types |-> <<"dn:NetworkVideoTransmitter">>]

ValidDatagrams ==
    { Match(AllKeys, "urn:uuid:1", <<"http://10.0.0.1/onvif">>, <<ScopeName, ScopeHardware>>),
      Match(AllKeys, "urn:uuid:1", <<"http://10.0.0.9/onvif">>, <<ScopeLocation>>),
      Match(AllKeys \ {"Types"}, "urn:uuid:2", <<"http://10.0.0.2/onvif">>,
            <<ScopeOther, ScopeName>>) }

InvalidDatagrams ==
    { [xml |-> "malformed", ProbeMatches |-> FALSE, keys |-> {}, Address |-> "",
       XAddrs |-> <<>>, Scopes |-> <<>>, Types |-> <<>>],
      [xml |-> "tree", ProbeMatches |-> FALSE, keys |-> {}, Address |-> "",
       XAddrs |-> <<>>, Scopes |-> <<>>, Types |-> <<>>],
      Match(AllKeys \ {"EndpointReference"}, "", <<"http://10.0.0.3/onvif">>, <<ScopeName>>),
      Match(AllKeys, "", <<"http://10.0.0.3/onvif">>, <<ScopeName>>),
      Match(AllKeys \ {"XAddrs"}, "urn:uuid:2", <<>>, <<ScopeName>>),
      Match(AllKeys \ {"Scopes"}, "urn:uuid:2", <<"http://10.0.0.3/onvif">>, <<>>) }

\* a ProbeMatch whose XAddrs or Scopes element is there and empty
EmptyListDatagrams ==
    { Match(AllKeys, "urn:uuid:3", <<>>, <<ScopeName>>),
      Match(AllKeys, "urn:uuid:3", <<"http://10.0.0.3/onvif">>, <<>>) }

Datagrams == ValidDatagrams \cup InvalidDatagrams \cup EmptyListDatagrams

Urns == {d.Address : d \in ValidDatagrams}

(***************************************************************************)
(* State                                                                   *)
(***************************************************************************)
VARIABLES
    activeProbes,   \* this._activeProbes: the ids registered
    probe,          \* the probe object of each session (createProbe's fields)
    deviceTypes,    \* the deviceTypes argument of each startProbe call
    soapRequests,   \* the send queue shared by the sendSoapRequest closures
    sendInFlight,   \* udpSocket.send called, its callback not yet run
    future,         \* the promise startProbe returned
    uncaught,       \* an exception no handler caught (the process ends)
    log,            \* history of each session, read by the properties only
    stopResults,    \* how the promises stopAllProbes returned were settled
    call,           \* the transport call under way: its client and arguments
    phase,          \* where its HTTP exchange stands
    requests,       \* the requests put on the wire, in order
    responses,      \* the responses received, in order
    aborted,        \* request.abort() was called
    result,         \* the promise requestCommand returned
    delivered,      \* what the http-auth client handed to its caller
    thrown,         \* an exception thrown in a listener of the exchange
    history,        \* the calls made so far, read by the properties only
    clock,          \* Date.now(), the local time in milliseconds
    onvifDevice,    \* the OnvifDevice object's time_diff and its services
    envelope,       \* the last envelope createRequestSoap built, and from what
    deviceLog,      \* history of the device object, read by the properties only
    scoped,         \* the data last handed to parseScopedData, and its result
    init,           \* the promise OnvifDevice.prototype.init returned
    returned,       \* what each initialization step returned to its caller
    transport,      \* the transport call of each step: sent, answered, failed
    profile_list,   \* this.profile_list, each profile with its stream and snapshot
    unhandled       \* the calls whose rejection no handler received

probeVars == <<activeProbes, probe, deviceTypes, soapRequests, sendInFlight, future,
               uncaught, log, stopResults>>

httpVars == <<call, phase, requests, responses, aborted, result, delivered, thrown,
              history>>

deviceVars == <<clock, onvifDevice, envelope, deviceLog>>

parserVars == <<scoped>>

chainVars == <<init, returned, transport, profile_list, unhandled>>

vars == <<probeVars, httpVars, deviceVars, parserVars, chainVars>>

\* what the operations of one component leave alone
exceptProbe == <<httpVars, deviceVars, parserVars, chainVars>>

exceptHttp == <<probeVars, deviceVars, parserVars, chainVars>>

exceptDevice == <<probeVars, httpVars, parserVars, chainVars>>

exceptParser == <<probeVars, httpVars, deviceVars, chainVars>>

exceptChain == <<probeVars, httpVars, parserVars>>

Undefined == "undefined"

NoProbe ==
    [udpSocket |-> "none", devices |-> <<>>,
     discovery_timeout_timer |-> "null", discovery_interval_timer |-> "null"]

createProbe ==
    [udpSocket |-> "unbound", devices |-> <<>>,
     discovery_timeout_timer |-> "null", discovery_interval_timer |-> "null"]

NoFuture == [state |-> "none", value |-> <<>>, reason |-> "none"]
Pending == [state |-> "pending", value |-> <<>>, reason |-> "none"]

Resolve(f, v) ==
    IF f.state = "pending" THEN [state |-> "resolved", value |-> v, reason |-> "none"] ELSE f

Reject(f, r) ==
    IF f.state = "pending" THEN [state |-> "rejected", value |-> <<>>, reason |-> r] ELSE f

NoLog ==
    [sent |-> 0, paths |-> {}, finishedBy |-> "none", lateEffect |-> FALSE,
     stopped |-> FALSE, bindFailed |-> FALSE, first |-> <<>>, duplicate |-> FALSE,
     order |-> <<>>, outstanding |-> 0, paced |-> TRUE, closeThrew |-> FALSE,
     stopCleared |-> FALSE]

(***************************************************************************)
(* node-onvif.js: the pure functions                                       *)
(***************************************************************************)
\* String.prototype.split(/\s+/) on a wire string: the empty string yields
\* one empty token, any other string its tokens.
Split(s, emptyToken) == IF s = <<>> THEN <<emptyToken>> ELSE s

EmptyScope == [prefix |-> "other", path |-> <<>>]

Null == [null |-> TRUE]

parseDataFromXmlResponse(xml) ==
    LET data == [urn |-> "", xaddrs |-> <<>>, scopes |-> <<>>, types |-> <<>>]
    IN  IF ~xml.ProbeMatches THEN data
        ELSE IF "EndpointReference" \notin xml.keys THEN data
        ELSE IF "XAddrs" \notin xml.keys THEN [data EXCEPT !.urn = xml.Address]
        ELSE LET d2 == [data EXCEPT !.urn = xml.Address,
                                    !.xaddrs = Split(xml.XAddrs, "")]
                 d3 == IF "Scopes" \notin xml.keys THEN d2
                       ELSE [d2 EXCEPT !.scopes = Split(xml.Scopes, EmptyScope)]
             IN  IF "Types" \notin xml.keys THEN d3
                 ELSE [d3 EXCEPT !.types = Split(xml.Types, "")]

\* scope.split('/').pop()
LastSegment(scope) ==
    IF scope.path = <<>> THEN <<>> ELSE scope.path[Len(scope.path)]

ReplaceUnderscoresKeeps(s) == s

\* name.replace(/_/g, ' ')
ReplaceUnderscores(s) == [i \in 1..Len(s) |-> IF s[i] = "_" THEN " " ELSE s[i]]

RECURSIVE ScanScopes(_, _, _)
ScanScopes(data, scopes, i) ==
    IF i > Len(scopes) THEN data
    ELSE LET scope == scopes[i]
             next == IF scope.prefix = "hardware"
                        THEN [data EXCEPT !.hardware = LastSegment(scope)]
                     ELSE IF scope.prefix = "location"
                        THEN [data EXCEPT !.location = LastSegment(scope)]
                     ELSE IF scope.prefix = "name"
                        THEN [data EXCEPT !.name = ReplaceUnderscores(LastSegment(scope))]
                     ELSE data
         IN  ScanScopes(next, scopes, i + 1)

parseScopedData(data) ==
    IF data.urn # "" /\ Len(data.xaddrs) > 0 /\ Len(data.scopes) > 0
    THEN ScanScopes([urn |-> data.urn, xaddrs |-> data.xaddrs, scopes |-> data.scopes,
                     types |-> data.types, name |-> <<>>, hardware |-> <<>>,
                     location |-> <<>>], data.scopes, 1)
    ELSE Null

HasKey(deviceObject, urn) == \E i \in 1..Len(deviceObject) : deviceObject[i].key = urn

setDeviceDataLastWins(devices, data) ==
    IF data = Null THEN devices
    ELSE IF HasKey(devices, data.urn)
         THEN [i \in 1..Len(devices) |->
                  IF devices[i].key = data.urn THEN [key |-> data.urn, value |-> data]
                  ELSE devices[i]]
         ELSE Append(devices, [key |-> data.urn, value |-> data])

\* probe.devices after setDeviceData(probe, data)
setDeviceData(devices, data) ==
    IF data = Null \/ HasKey(devices, data.urn) THEN devices
    ELSE Append(devices, [key |-> data.urn, value |-> data])

\* probe.devices after onUdpMessage(probe, buf); a parse error is swallowed
onUdpMessage(devices, buf) ==
    IF buf.xml = "malformed" THEN devices
    ELSE setDeviceData(devices, parseScopedData(parseDataFromXmlResponse(buf)))

\* the scope lists a ProbeMatch can carry
ScopeUris ==
    {ScopeName, ScopeNameBare, ScopeNameDeep, ScopeHardware, ScopeHardwareOther,
     ScopeLocation, ScopeOther, EmptyScope}

RECURSIVE ScopeListsOf(_)
ScopeListsOf(n) ==
    IF n = 0 THEN {<<>>}
    ELSE LET shorter == ScopeListsOf(n - 1)
         IN  shorter \cup {Append(l, scope) : l \in shorter, scope \in ScopeUris}

ScopeLists == ScopeListsOf(MaxScopes)

NoScoped ==
    [data |-> [urn |-> "", xaddrs |-> <<>>, scopes |-> <<>>, types |-> <<>>],
     result |-> Null]

\* the datagram gets past parseXml and parseScopedData
Accepted(buf) ==
    /\ buf.xml # "malformed"
    /\ parseScopedData(parseDataFromXmlResponse(buf)) # Null

createDeviceList(deviceObject) ==
    [i \in 1..Len(deviceObject) |-> deviceObject[i].value]

RECURSIVE Replicate(_, _)
Replicate(soapSet, times) ==
    IF times = 0 THEN <<>> ELSE soapSet \o Replicate(soapSet, times - 1)

buildSoapRequestsGrouped(types) ==
    [i \in 1..(DISCOVERY_RETRIES_MAX * Len(types)) |->
        [type |-> types[((i - 1) \div DISCOVERY_RETRIES_MAX) + 1],
         messageId |-> ((i - 1) \div DISCOVERY_RETRIES_MAX) + 1]]

\* One message per type, each with its own message id, the set repeated.
buildSoapRequests(types) ==
    Replicate([i \in 1..Len(types) |-> [type |-> types[i], messageId |-> i]],
              DISCOVERY_RETRIES_MAX)

clearProbeTimeouts(pr) ==
    [pr EXCEPT !.discovery_interval_timer = "null", !.discovery_timeout_timer = "null"]

\* close() and the 'close' listener onUdpSocketClosed, which Node runs on the
\* next tick
closeUdpSocket(pr) ==
    IF pr.udpSocket = "null" THEN pr ELSE [pr EXCEPT !.udpSocket = "null"]

\* soapRequests.shift() of an empty queue
NoSoapRequest == [type |-> Undefined, messageId |-> 0]

\* closeUdpSocket as stopAllProbes calls it: close() begins the close, and
\* throws on a socket that is already closing (its reference is set to null
\* only by the 'close' listener, on the next tick)
closeCall(pr) ==
    IF pr.udpSocket = "null" THEN [probe |-> pr, outcome |-> "resolved"]
    ELSE IF pr.udpSocket = "closing" THEN [probe |-> pr, outcome |-> "rejected"]
    ELSE [probe |-> [pr EXCEPT !.udpSocket = "closing"], outcome |-> "resolved"]

\* the 'close' listener
onUdpSocketClosed(pr) ==
    IF pr.udpSocket = "closing" THEN [pr EXCEPT !.udpSocket = "null"] ELSE pr

\* one session's part of a stopAllProbes call
stopProbe(pr) == closeCall(clearProbeTimeouts(pr))

catchRethrows(outcome) == outcome

\* .catch(() => {})
catchSwallows(outcome) == "resolved"

\* Promise.all over the sessions' promises
PromiseAll(outcomes) == IF "rejected" \in outcomes THEN "rejected" ELSE "resolved"

sendSoapRequestStopsEarly(pr, queue) ==
    IF Len(queue) <= 1
    THEN [outcome |-> "resolve", soapRequests |-> <<>>, soapRequest |-> NoSoapRequest]
    ELSE IF pr.udpSocket = "null"
         THEN [outcome |-> "throw", soapRequests |-> Tail(queue), soapRequest |-> Head(queue)]
         ELSE [outcome |-> "send", soapRequests |-> Tail(queue), soapRequest |-> Head(queue)]

sendSoapRequestPops(pr, queue) ==
    IF queue = <<>>
    THEN [outcome |-> "resolve", soapRequests |-> queue, soapRequest |-> NoSoapRequest]
    ELSE IF pr.udpSocket = "null"
         THEN [outcome |-> "throw", soapRequests |-> SubSeq(queue, 1, Len(queue) - 1),
               soapRequest |-> queue[Len(queue)]]
         ELSE [outcome |-> "send", soapRequests |-> SubSeq(queue, 1, Len(queue) - 1),
               soapRequest |-> queue[Len(queue)]]

\* What one call of sendSoapRequest does with the queue and the socket.
sendSoapRequest(pr, queue) ==
    IF queue = <<>>
    THEN [outcome |-> "resolve", soapRequests |-> queue, soapRequest |-> NoSoapRequest]
    ELSE IF pr.udpSocket = "null"
         THEN [outcome |-> "throw", soapRequests |-> Tail(queue), soapRequest |-> Head(queue)]
         ELSE [outcome |-> "send", soapRequests |-> Tail(queue), soapRequest |-> Head(queue)]

(***************************************************************************)
(* soap.js and http-auth.js: values                                        *)
(*                                                                         *)
(* A JavaScript string built by a template is the sequence of its parts;   *)
(* a value that is undefined renders as "undefined".  A hash or an         *)
(* encoding is the tagged value of its input, so that two results are      *)
(* equal exactly when their inputs are.                                    *)
(***************************************************************************)
md5Hash(str) == <<"md5", str>>

\* a hash that was never computed: it renders as the text undefined
NoHash == <<Undefined>>

Base64(str) == <<"base64", str>>

MethodNames == {"GetProfiles", "GetStreamUri"}

\* `${methodName}Response`
ResponseKey(methodName) == <<methodName, "Response">>

\* What the XML parser yields for a well-formed document: a string (an
\* element with text only), null (blank input) or an object; the value under
\* Body is a string (an empty element yields '') or an object whose entries
\* are <<key, sub-tree>> pairs.
JsNull == [type |-> "null", keys |-> {}, Body |-> [type |-> "undefined", entries |-> {}]]

JsString == [type |-> "string", keys |-> {}, Body |-> [type |-> "undefined", entries |-> {}]]

Envelope(keys, body) == [type |-> "object", keys |-> keys, Body |-> body]

BodyString == [type |-> "string", entries |-> {}]

BodyObject(entries) == [type |-> "object", entries |-> entries]

\* a text is the sequence of its parts; a child element that is missing
\* reads as undefined
Missing == <<>>

\* a sub-tree: its own text and the Text of its Reason and Detail children
Tree(text) == [Text |-> text, Reason |-> Missing, Detail |-> Missing]

FaultKey == <<"Fault">>

NotAuthorized == "Sender not authorized"

FaultReasons ==
    {<<NotAuthorized>>, <<"Error: ", NotAuthorized, " (wsse)">>, <<"Action not supported">>}

FaultDetails == {Missing, <<"The action requires authorization">>}

Fault(reason, detail) == [Text |-> Undefined, Reason |-> reason, Detail |-> detail]

FaultTree == Fault(<<NotAuthorized>>, <<"The action requires authorization">>)

\* String.prototype.includes
Includes(text, part) == \E i \in 1..Len(text) : text[i] = part

BodyValues ==
    { BodyString,
      BodyObject({}),
      BodyObject({<<FaultKey, FaultTree>>}),
      BodyObject({<<FaultKey, Fault(<<"Action not supported">>, Missing)>>}),
      BodyObject({<<ResponseKey("GetProfiles"), Tree("Profiles")>>,
                  <<ResponseKey("GetStreamUri"), Tree("MediaUri")>>}),
      BodyObject({<<ResponseKey("GetStreamUri"), Tree("MediaUri")>>}) }

Documents ==
    {JsString, Envelope({"Header"}, [type |-> "undefined", entries |-> {}])}
        \cup {Envelope({"Header", "Body"}, b) : b \in BodyValues}

\* response bodies: empty, not well-formed, or a well-formed document
Bodies ==
    {[raw |-> "empty", doc |-> JsNull], [raw |-> "malformed", doc |-> JsNull]}
        \cup {[raw |-> "xml", doc |-> d] : d \in Documents}

\* WWW-Authenticate header values: the scheme, then the key="value" pairs
Realm == <<"realm", "camera">>
ServerNonce == <<"nonce", "n0nce">>

NoChallenge == <<>>

SupportedChallenges ==
    { <<"Basic", Realm>>,
      <<"Digest", Realm, ServerNonce>>,
      <<"Digest", Realm, ServerNonce, <<"qop", "auth">> >>,
      <<"Digest", Realm, <<"nonce", "n1">>, <<"qop", "auth">> >>,
      <<"Digest", Realm, ServerNonce, <<"qop", "auth">>, <<"algorithm", "MD5">> >>,
      <<"Digest", Realm, ServerNonce, <<"qop", "auth">>, <<"algorithm", "MD5-sess">> >> }

Challenges ==
    SupportedChallenges
        \cup { <<"Digest", Realm, ServerNonce, <<"qop", "auth-int">> >>,
               <<"Bearer", Realm>> }

ClientNonces == {"c1", "c2"}

StatusMessage(code) ==
    CASE code = 200 -> "OK"
      [] code = 400 -> "Bad Request"
      [] code = 401 -> "Unauthorized"
      [] OTHER -> "Internal Server Error"

SoapResponses ==
    {[statusCode |-> c, challenge |-> h, body |-> b] :
        c \in {200, 400, 401}, h \in {NoChallenge, <<"Digest", Realm, ServerNonce>>},
        b \in Bodies}
      \cup {[statusCode |-> c, challenge |-> NoChallenge,
             body |-> [raw |-> "xml",
                       doc |-> Envelope({"Header", "Body"},
                                        BodyObject({<<FaultKey, Fault(r, d)>>}))]] :
                c \in {400, 500}, r \in FaultReasons, d \in FaultDetails}

\* the content-type header of a response; a device may send none
ContentTypes == {Undefined, "image/jpeg", "text/plain", "application/json"}

AuthResponses ==
    {[statusCode |-> c, challenge |-> h, body |-> [raw |-> "empty", doc |-> JsNull],
      contentType |-> ct] :
        c \in {200, 401}, h \in Challenges \cup {NoChallenge}, ct \in {Undefined}}
    \cup
    {[statusCode |-> 200, challenge |-> NoChallenge,
      body |-> [raw |-> "empty", doc |-> JsNull], contentType |-> ct] :
        ct \in ContentTypes}

\* the options the http-auth client is called with; fetchSnapshot passes no
\* user and no pass
\* a header the caller kept from an earlier exchange
StaleHeaders == << <<"Authorization", <<"Basic", Base64(<<"admin", ":", "secret">>)>> >> >>

\* options that carry no auth string
NoAuth == <<>>

AuthOptions ==
    { [method |-> "GET", path |-> "/snapshot", user |-> "admin", pass |-> "secret",
       headers |-> <<>>, auth |-> NoAuth],
      [method |-> "GET", path |-> "/snapshot", user |-> "admin", pass |-> "secret",
       headers |-> StaleHeaders, auth |-> NoAuth],
      [method |-> Undefined, path |-> "/snapshot", user |-> Undefined, pass |-> Undefined,
       headers |-> <<>>, auth |-> NoAuth] }

NoOptions ==
    [method |-> Undefined, path |-> Undefined, user |-> Undefined, pass |-> Undefined,
     headers |-> <<>>, auth |-> NoAuth]

\* the options fetchSnapshot hands to the http-auth client: the credentials
\* are in auth, and there is no user and no pass
SnapshotOptions(user, pass, snapshot) ==
    [method |-> "GET", path |-> snapshot, user |-> Undefined, pass |-> Undefined,
     headers |-> <<>>, auth |-> <<user, ":", pass>>]

\* the snapshot URI of the current profile: none, or the path of one
SnapshotUris == {Undefined, "/snapshot"}

NoCall == [client |-> "none", methodName |-> "none", options |-> NoOptions]

NoHeader == <<>>

(***************************************************************************)
(* http-auth.js: the pure functions                                        *)
(***************************************************************************)
HasParam(header, key) == \E i \in 2..Len(header) : header[i][1] = key

\* the value the last key="value" pair with this key carries
Param(header, key) ==
    IF HasParam(header, key)
    THEN header[CHOOSE i \in 2..Len(header) :
                    /\ header[i][1] = key
                    /\ \A j \in 2..Len(header) : header[j][1] = key => j <= i][2]
    ELSE Undefined

parseAuthString(header) ==
    [authType |-> header[1],
     authParams |-> [realm |-> Param(header, "realm"), nonce |-> Param(header, "nonce"),
                     algorithm |-> Param(header, "algorithm"), qop |-> Param(header, "qop")]]

setRequestOptionsKeepsHeaders(options) ==
    [method |-> IF options.method = Undefined THEN "GET" ELSE options.method,
     path |-> options.path, headers |-> options.headers]

\* a new object with the method, host, port, path and timeout of the options:
\* it has no headers
setRequestOptions(options) ==
    [method |-> IF options.method = Undefined THEN "GET" ELSE options.method,
     path |-> options.path, headers |-> NoHeader]

buildBasicAuthHeaderString(user, pass) ==
    [threw |-> FALSE, header |-> <<"Basic", Base64(<<user, ":", pass>>)>>]

buildDigestAuthHeaderStringIgnoresQop(authParams, path, method, user, pass, clientNonce) ==
    [threw |-> FALSE,
     header |-> <<"Digest",
                  << <<"username", user>>, <<"realm", authParams.realm>>,
                     <<"nonce", authParams.nonce>>, <<"uri", path>>,
                     <<"cnonce", clientNonce>>, <<"nc", "00000001">>,
                     <<"qop", authParams.qop>>, <<"algorithm", authParams.algorithm>>,
                     <<"response",
                       md5Hash(<<md5Hash(<<user, ":", authParams.realm, ":", pass>>), ":",
                                 authParams.nonce, ":", md5Hash(<<method, ":", path>>)>>)>> >> >>]

\* clientNonce: the value _createClientNonce(32) draws
buildDigestAuthHeaderString(authParams, path, method, user, pass, clientNonce) ==
    LET realm == authParams.realm
        nonce == authParams.nonce
        algorithm == authParams.algorithm
        qop == authParams.qop
        ha1 == IF algorithm = Undefined \/ algorithm = "MD5"
               THEN md5Hash(<<user, ":", realm, ":", pass>>) ELSE NoHash
        ha2 == IF qop = Undefined \/ qop = "auth"
               THEN md5Hash(<<method, ":", path>>) ELSE NoHash
        args == << <<"username", user>>, <<"realm", realm>>, <<"nonce", nonce>>,
                   <<"uri", path>> >>
        nonceCount == "00000001"
        sessionHa1 == IF algorithm = "MD5-sess"
                      THEN md5Hash(<<ha1, ":", nonce, ":", clientNonce>>) ELSE ha1
    IN  IF qop = Undefined
        THEN [threw |-> FALSE,
              header |-> <<"Digest",
                           args \o << <<"response", md5Hash(<<ha1, ":", nonce, ":", ha2>>)>> >> >>]
        ELSE IF qop = "auth-int"
        THEN [threw |-> TRUE, header |-> NoHeader]
        ELSE [threw |-> FALSE,
              header |-> <<"Digest",
                           args \o << <<"cnonce", clientNonce>>, <<"nc", nonceCount>>,
                                      <<"qop", qop>>, <<"algorithm", algorithm>>,
                                      <<"response",
                                        md5Hash(<<sessionHa1, ":", nonce, ":", nonceCount, ":",
                                                  clientNonce, ":", qop, ":", ha2>>)>> >> >>]

buildAuthHeaderStringDowngrades(authData, path, method, user, pass, clientNonce) ==
    IF authData.authType = "Digest"
    THEN buildDigestAuthHeaderString(
            [authData.authParams EXCEPT !.qop = IF @ = "auth-int" THEN "auth" ELSE @],
            path, method, user, pass, clientNonce)
    ELSE IF authData.authType = "Basic"
    THEN buildBasicAuthHeaderString(user, pass)
    ELSE [threw |-> TRUE, header |-> NoHeader]

buildAuthHeaderString(authData, path, method, user, pass, clientNonce) ==
    IF authData.authType = "Digest"
    THEN buildDigestAuthHeaderString(authData.authParams, path, method, user, pass, clientNonce)
    ELSE IF authData.authType = "Basic"
    THEN buildBasicAuthHeaderString(user, pass)
    ELSE [threw |-> TRUE, header |-> NoHeader]

retryRequestWithoutHeader(requestOptions, authorization) == requestOptions

\* the request _handleHttpAuthResponse sends: the first one's options plus
\* the Authorization header
retryRequest(requestOptions, authorization) ==
    [requestOptions EXCEPT !.headers = << <<"Authorization", authorization>> >>]

(***************************************************************************)
(* soap.js: the pure functions                                             *)
(***************************************************************************)
NoError == [kind |-> "none", info |-> <<>>]

NoValue == Tree(Undefined)

HttpNoFuture == [state |-> "none", value |-> NoValue, reason |-> NoError]

HttpPending == [state |-> "pending", value |-> NoValue, reason |-> NoError]

Fulfil(f, v) ==
    IF f.state = "pending" THEN [state |-> "resolved", value |-> v, reason |-> NoError] ELSE f

Fail(f, e) ==
    IF f.state = "pending" THEN [state |-> "rejected", value |-> NoValue, reason |-> e] ELSE f

buildSoapRequestPostParams(xaddr, soap) ==
    [method |-> "POST", path |-> xaddr,
     headers |-> << <<"Content-Type", "application/soap+xml; charset=utf-8;">>,
                    <<"Content-Length", soap>> >>]

\* helpers.parseXml: rejects a document that is not well-formed, yields null
\* for blank input
parseXml(body) ==
    IF body.raw = "malformed" THEN [ok |-> FALSE, value |-> JsNull]
    ELSE IF body.raw = "empty" THEN [ok |-> TRUE, value |-> JsNull]
    ELSE [ok |-> TRUE, value |-> body.doc]

HasEntry(body, key) == \E e \in body.entries : e[1] = key

Entry(body, key) == (CHOOSE e \in body.entries : e[1] = key)[2]

\* the operand of `in` must be an object, or a TypeError is thrown
parseValidResponse(f, response, methodName) ==
    IF response.type # "object"
        THEN Fail(f, [kind |-> "TypeError", info |-> <<"in", "Body">>])
    ELSE IF "Body" \notin response.keys
        THEN Fail(f, [kind |-> "UnsupportedOperation", info |-> <<methodName>>])
    ELSE IF response.Body.type # "object"
        THEN Fail(f, [kind |-> "TypeError", info |-> <<"in", ResponseKey(methodName)>>])
    ELSE IF ~HasEntry(response.Body, ResponseKey(methodName))
        THEN Fail(f, [kind |-> "UnsupportedOperation", info |-> <<methodName>>])
    ELSE Fulfil(f, Entry(response.Body, ResponseKey(methodName)))

\* parseOnvifError: the Text of the Fault's Reason and of its Detail; reading
\* Text of a child that is missing throws a TypeError
parseOnvifError(parsed) ==
    IF /\ parsed.type = "object" /\ "Body" \in parsed.keys /\ parsed.Body.type = "object"
       /\ HasEntry(parsed.Body, FaultKey)
       /\ Entry(parsed.Body, FaultKey).Reason # Missing
       /\ Entry(parsed.Body, FaultKey).Detail # Missing
    THEN [ok |-> TRUE, message |-> Entry(parsed.Body, FaultKey).Reason,
          detail |-> Entry(parsed.Body, FaultKey).Detail]
    ELSE [ok |-> FALSE, message |-> Missing, detail |-> Missing]

formatError(methodName, httpError, xmlError, onvifError) ==
    IF httpError.code = 400 /\ onvifError.ok /\ Includes(onvifError.message, NotAuthorized)
    THEN [kind |-> "SoapError", info |-> <<methodName, <<401, "Unauthorized">> >>]
    ELSE [kind |-> "SoapError",
          info |-> <<methodName, <<httpError.code, httpError.message>>, xmlError,
                     IF onvifError.ok THEN <<onvifError.message, onvifError.detail>>
                     ELSE <<>> >>]

NoOnvifError == [ok |-> FALSE, message |-> Missing, detail |-> Missing]

soapResponseHandlerAcceptsAnyStatus(f, response, methodName) ==
    LET parsed == parseXml(response.body)
    IN  IF parsed.ok THEN parseValidResponse(f, parsed.value, methodName)
        ELSE Fail(f, [kind |-> "XmlParseError", info |-> <<>>])

\* the requestCommand promise after the response's 'end' event: the
\* soapResponseHandler settles request()'s promise, then requestCommand's chain
\* parses the body and looks for the response element
soapResponseHandler(f, response, methodName) ==
    LET httpError == [code |-> response.statusCode,
                      message |-> StatusMessage(response.statusCode)]
        parsed == parseXml(response.body)
    IN  IF response.statusCode = 200
        THEN IF parsed.ok THEN parseValidResponse(f, parsed.value, methodName)
             ELSE Fail(f, [kind |-> "XmlParseError", info |-> <<>>])
        ELSE IF response.body.raw = "empty"
        THEN Fail(f, formatError(methodName, httpError, "none", NoOnvifError))
        ELSE IF parsed.ok /\ parseOnvifError(parsed.value).ok
        THEN Fail(f, formatError(methodName, httpError, "none", parseOnvifError(parsed.value)))
        ELSE Fail(f, formatError(methodName, httpError,
                                 IF parsed.ok THEN "TypeError" ELSE "XmlParseError",
                                 NoOnvifError))

abortNeverReports(f, responded) == f

\* the requestCommand promise after the 'timeout' listener's request.abort():
\* before a response the request emits 'error' (socket hang up); once the
\* response has begun neither 'error' nor 'end' follows
abortRequest(f, responded) ==
    IF responded THEN f
    ELSE Fail(f, [kind |-> "NetworkError", info |-> <<"socket hang up">>])

(***************************************************************************)
(* soap.js createRequestSoap, service-device.js, service-media.js and      *)
(* device.js: values and pure functions                                    *)
(***************************************************************************)
Users == {"", "admin"}

Passwords == {"", "secret"}

\* the device's clock minus the local clock, in milliseconds
Skews == {-1, 0, 2}

\* the bytes helpers.createNonce(16) draws
NonceBuffers == {"N1", "N2"}

sha1(bytes) == <<"sha1", bytes>>

\* Date.prototype.toISOString of the time t
ISOString(t) == <<"iso", t>>

DeviceNamespaces == <<"xmlns:tds", "xmlns:tt">>

MediaNamespaces == <<"xmlns:trt", "xmlns:tt">>

createSoapUserTokenIgnoresDiff(timeDiff, user, pass, now, nonceBuffer) ==
    [Username |-> user,
     Password |-> Base64(sha1(<<nonceBuffer, ISOString(now), pass>>)),
     Nonce |-> Base64(nonceBuffer),
     Created |-> ISOString(now)]

\* now: Date.now(); nonceBuffer: the bytes createNonce(16) draws
createSoapUserToken(timeDiff, user, pass, now, nonceBuffer) ==
    LET diff == IF timeDiff = 0 THEN 0 ELSE timeDiff
        password == IF pass = "" THEN "" ELSE pass
        date == ISOString(now + diff)
    IN  [Username |-> user,
         Password |-> Base64(sha1(<<nonceBuffer, date, password>>)),
         Nonce |-> Base64(nonceBuffer),
         Created |-> date]

\* the envelope: its namespaces, the UsernameToken in its Header if there is
\* one, its Body
createRequestSoap(params, now, nonceBuffer) ==
    [xmlns |-> params.xmlns,
     Header |-> IF params.user # ""
                THEN <<createSoapUserToken(params.diff, params.user, params.pass,
                                           now, nonceBuffer)>>
                ELSE <<>>,
     Body |-> params.body]

\* new OnvifServiceDevice(xaddr, user, pass)
OnvifServiceDevice(user, pass) ==
    [user |-> user, pass |-> pass, timeDifference |-> 0, namespaces |-> DeviceNamespaces]

\* new OnvifServiceMedia(xaddr, user, pass, timeDifference)
OnvifServiceMedia(user, pass, timeDifference) ==
    [user |-> user, pass |-> pass, timeDifference |-> timeDifference,
     namespaces |-> MediaNamespaces]

\* _createRequestSoap of either service: the params it hands to createRequestSoap
serviceParams(service, body) ==
    [body |-> body, xmlns |-> service.namespaces, diff |-> service.timeDifference,
     user |-> service.user, pass |-> service.pass]

\* _parseSystemDateAndTime: utcDateTime is the device's time
parseSystemDateAndTime(deviceTime) == [utcDateTime |-> deviceTime]

\* OnvifServiceDevice.prototype.setTimeDifference
setTimeDifference(service, systemDateTime, now) ==
    [service EXCEPT !.timeDifference = systemDateTime.utcDateTime - now]

NoService == [user |-> "", pass |-> "", timeDifference |-> 0, namespaces |-> <<>>]

\* the steps init() chains, in its order
Steps ==
    <<"_getSystemDateAndTime", "_getCapabilities", "_getDeviceInformation",
      "_mediaGetProfiles", "_mediaGetStreamURI", "_mediaGetSnapshotUri">>

StepNames == {Steps[i] : i \in 1..Len(Steps)}

\* const protocols = ['UDP', 'HTTP', 'RTSP']
protocols == <<"UDP", "HTTP", "RTSP">>

\* the transport calls of the steps after the time query
TransportCalls ==
    {"GetCapabilities", "GetDeviceInformation", "GetProfiles", "GetSnapshotUri"}
        \cup {protocols[i] : i \in 1..Len(protocols)}

\* a profile as parseProfile yields it: no stream and no snapshot yet
Profile(token) ==
    [token |-> token, stream |-> Undefined, snapshot |-> Undefined,
     udp |-> Undefined, http |-> Undefined, rtsp |-> Undefined]

\* what GetProfiles can be answered with
ProfileLists == {<<>>, <<Profile("profile_1")>>}

\* protocol.toLowerCase()
toLowerCase(protocol) ==
    CASE protocol = "UDP" -> "udp" [] protocol = "HTTP" -> "http" [] OTHER -> "rtsp"

NoEnvelope ==
    [by |-> "none", now |-> 0, afterTimeQuery |-> FALSE,
     params |-> serviceParams(NoService, "none"),
     soap |-> [xmlns |-> <<>>, Header |-> <<>>, Body |-> "none"]]

(***************************************************************************)
(* node-onvif.js: the operations                                           *)
(***************************************************************************)
Alive == \A p \in Probes : uncaught[p] = "none"

startedProbeArmsTimeout ==
    [createProbe EXCEPT !.udpSocket = "binding", !.discovery_timeout_timer = "armed"]

\* createProbe() and udpSocket.bind(...) in _setupUdpSocketAndStartProbing
startedProbe == [createProbe EXCEPT !.udpSocket = "binding"]

\* the bind callback: the socket listens and the overall timeout is armed
boundProbe(pr) ==
    [pr EXCEPT !.udpSocket = "bound", !.discovery_timeout_timer = "armed"]

\* the send callback arms the retry-interval timer
sendCallback(pr) == [pr EXCEPT !.discovery_interval_timer = "armed"]

\* the probe object after _finishProbe: timers cleared, socket closed
finishProbe(pr) == closeUdpSocket(clearProbeTimeouts(pr))

\* the startProbe promise after _finishProbe's chain
settleFinishedRejects(f, deviceObject) == Reject(f, "Error")

settleFinished(f, deviceObject) == Resolve(f, createDeviceList(deviceObject))

Init ==
    /\ activeProbes = {}
    /\ probe = [p \in Probes |-> NoProbe]
    /\ deviceTypes = [p \in Probes |-> <<>>]
    /\ soapRequests = [p \in Probes |-> <<>>]
    /\ sendInFlight = [p \in Probes |-> FALSE]
    /\ future = [p \in Probes |-> NoFuture]
    /\ uncaught = [p \in Probes |-> "none"]
    /\ log = [p \in Probes |-> NoLog]
    /\ stopResults = <<>>
    /\ call = NoCall
    /\ phase = "idle"
    /\ requests = <<>>
    /\ responses = <<>>
    /\ aborted = FALSE
    /\ result = HttpNoFuture
    /\ delivered = <<>>
    /\ thrown = "none"
    /\ history = [calls |-> 0, authorized |-> {}]
    /\ clock = 0
    /\ scoped = NoScoped
    /\ init = "none"
    /\ returned = [step \in StepNames |-> "none"]
    /\ transport = [c \in TransportCalls |-> "none"]
    /\ profile_list = <<>>
    /\ unhandled = {}
    /\ onvifDevice = [user |-> "", pass |-> "", time_diff |-> 0,
                      device |-> NoService, media |-> NoService,
                      timeQuery |-> "none", capabilities |-> "none"]
    /\ envelope = NoEnvelope
    /\ deviceLog = [answered |-> FALSE, learned |-> 0, systemDateTime |-> parseSystemDateAndTime(0)]

\* startProbe(deviceTypes): register the probe, bind its socket
StartProbe(p, types) ==
    /\ Alive
    /\ UNCHANGED exceptProbe
    /\ probe[p].udpSocket = "none"
    /\ activeProbes' = activeProbes \cup {p}
    /\ probe' = [probe EXCEPT ![p] = startedProbe]
    /\ deviceTypes' = [deviceTypes EXCEPT ![p] = types]
    /\ future' = [future EXCEPT ![p] = Pending]
    /\ UNCHANGED <<soapRequests, sendInFlight, uncaught, log, stopResults>>

\* _finishProbe(probe, requestId, resolve, reject), reached by `path`, on the
\* probe object pr
FinishProbe(p, pr, path) ==
    LET effect == \/ pr.discovery_timeout_timer = "armed"
                  \/ pr.discovery_interval_timer = "armed"
                  \/ pr.udpSocket # "null"
                  \/ p \in activeProbes
                  \/ future[p].state = "pending"
    IN  /\ probe' = [probe EXCEPT ![p] = finishProbe(pr)]
        /\ activeProbes' = activeProbes \ {p}
        /\ future' = [future EXCEPT ![p] = settleFinished(@, pr.devices)]
        /\ log' = [log EXCEPT ![p].paths = @ \cup {path},
                              ![p].finishedBy = IF @ = "none" THEN path ELSE @,
                              ![p].lateEffect = @ \/ (log[p].finishedBy # "none" /\ effect)]

\* sendSoapRequest(probe, resolve, soapRequests) on the probe object pr
SendSoapRequest(p, pr) ==
    LET r == sendSoapRequest(pr, soapRequests[p])
    IN  /\ soapRequests' = [soapRequests EXCEPT ![p] = r.soapRequests]
        /\ CASE r.outcome = "resolve" ->
                  /\ FinishProbe(p, pr, "send")
                  /\ UNCHANGED <<sendInFlight, uncaught>>
             [] r.outcome = "send" ->
                  /\ probe' = [probe EXCEPT ![p] = pr]
                  /\ sendInFlight' = [sendInFlight EXCEPT ![p] = TRUE]
                  /\ log' = [log EXCEPT
                                ![p].sent = @ + 1,
                                ![p].order = Append(@, r.soapRequest),
                                ![p].outstanding = @ + 1,
                                ![p].paced = /\ @
                                             /\ log[p].outstanding = 0
                                             /\ probe[p].discovery_interval_timer = "armed"]
                  /\ UNCHANGED <<activeProbes, future, uncaught>>
             [] r.outcome = "throw" ->
                  /\ probe' = [probe EXCEPT ![p] = pr]
                  /\ uncaught' = [uncaught EXCEPT ![p] = "TypeError"]
                  /\ UNCHANGED <<activeProbes, future, sendInFlight, log>>

\* the callback of udpSocket.bind: arm the timeout, build the queue, send
BindCallback(p) ==
    /\ Alive
    /\ UNCHANGED exceptProbe
    /\ probe[p].udpSocket = "binding"
    /\ \E q \in {buildSoapRequests(deviceTypes[p])} :
          LET r == sendSoapRequest(boundProbe(probe[p]), q)
          IN  /\ soapRequests' = [soapRequests EXCEPT ![p] = r.soapRequests]
              /\ IF r.outcome = "resolve"
                 THEN /\ FinishProbe(p, boundProbe(probe[p]), "send")
                      /\ UNCHANGED sendInFlight
                 ELSE /\ probe' = [probe EXCEPT ![p] = boundProbe(@)]
                      /\ sendInFlight' = [sendInFlight EXCEPT ![p] = TRUE]
                      /\ log' = [log EXCEPT
                                    ![p].sent = @ + 1,
                                    ![p].order = Append(@, r.soapRequest),
                                    ![p].outstanding = @ + 1,
                                    ![p].paced = @ /\ log[p].sent = 0]
                      /\ UNCHANGED <<activeProbes, future>>
    /\ UNCHANGED <<deviceTypes, uncaught, stopResults>>

\* the 'error' event of a socket whose bind failed
BindError(p) ==
    /\ Alive
    /\ UNCHANGED exceptProbe
    /\ probe[p].udpSocket = "binding"
    /\ probe' = [probe EXCEPT ![p].udpSocket = "unbound"]
    /\ future' = [future EXCEPT ![p] = Reject(@, "BindError")]
    /\ log' = [log EXCEPT ![p].bindFailed = TRUE]
    /\ UNCHANGED <<activeProbes, deviceTypes, soapRequests, sendInFlight, uncaught, stopResults>>

\* the callback of udpSocket.send
SendCallback(p) ==
    /\ Alive
    /\ UNCHANGED exceptProbe
    /\ sendInFlight[p]
    /\ sendInFlight' = [sendInFlight EXCEPT ![p] = FALSE]
    /\ probe' = [probe EXCEPT ![p] = sendCallback(@)]
    /\ log' = [log EXCEPT ![p].outstanding = @ - 1]
    /\ UNCHANGED <<activeProbes, deviceTypes, soapRequests, future, uncaught, stopResults>>

\* the retry-interval timer fires
IntervalTimer(p) ==
    /\ Alive
    /\ UNCHANGED exceptProbe
    /\ probe[p].discovery_interval_timer = "armed"
    /\ SendSoapRequest(p, [probe[p] EXCEPT !.discovery_interval_timer = "fired"])
    /\ UNCHANGED <<deviceTypes, stopResults>>

\* the overall timeout fires
TimeoutTimer(p) ==
    /\ Alive
    /\ UNCHANGED exceptProbe
    /\ probe[p].discovery_timeout_timer = "armed"
    /\ FinishProbe(p, probe[p], "timeout")
    /\ UNCHANGED <<deviceTypes, soapRequests, sendInFlight, uncaught, stopResults>>

\* a datagram arrives on the listening socket
UdpMessage(p, buf) ==
    /\ Alive
    /\ UNCHANGED exceptProbe
    /\ probe[p].udpSocket = "bound"
    /\ probe' = [probe EXCEPT ![p].devices = onUdpMessage(@, buf)]
    /\ LET known == \E i \in 1..Len(log[p].first) : log[p].first[i].Address = buf.Address
       IN  log' = [log EXCEPT
                      ![p].first = IF Accepted(buf) /\ ~known
                                   THEN Append(@, buf) ELSE @,
                      ![p].duplicate = @ \/ (Accepted(buf) /\ known)]
    /\ UNCHANGED <<activeProbes, deviceTypes, soapRequests, sendInFlight, future, uncaught, stopResults>>

\* stopAllProbes(), called `calls` times in one turn of the event loop: every
\* registered session is torn down, and the sockets' 'close' listeners run
\* before the next event
RECURSIVE stopCalls(_, _)
stopCalls(pr, calls) ==
    IF calls = 0 THEN <<>>
    ELSE LET r == stopProbe(pr) IN <<r>> \o stopCalls(r.probe, calls - 1)

StopAllProbes(calls) ==
    /\ Alive
    /\ UNCHANGED exceptProbe
    /\ activeProbes # {}
    /\ LET rs == [p \in activeProbes |-> stopCalls(probe[p], calls)]
       IN  /\ probe' = [p \in Probes |->
                           IF p \in activeProbes
                           THEN onUdpSocketClosed(rs[p][calls].probe)
                           ELSE probe[p]]
           /\ activeProbes' =
                  {p \in activeProbes : \A i \in 1..calls : rs[p][i].outcome = "rejected"}
           /\ log' = [p \in Probes |->
                         IF p \in activeProbes
                         THEN [log[p] EXCEPT !.stopped = TRUE,
                                             !.stopCleared =
                                                /\ probe'[p].discovery_timeout_timer = "null"
                                                /\ probe'[p].discovery_interval_timer = "null",
                                             !.closeThrew =
                                                \E i \in 1..calls : rs[p][i].outcome = "rejected"]
                         ELSE log[p]]
           /\ stopResults' =
                  stopResults \o
                    [i \in 1..calls |->
                        PromiseAll({catchSwallows(rs[p][i].outcome) : p \in activeProbes})]
    /\ UNCHANGED <<deviceTypes, soapRequests, sendInFlight, future, uncaught>>

\* the steps of the sessions in S, called with one of typeLists and
\* receiving the datagrams bufs
Sessions(S, typeLists, bufs) ==
    \/ \E p \in S, types \in typeLists : StartProbe(p, types)
    \/ \E p \in S : BindCallback(p)
    \/ \E p \in S : BindError(p)
    \/ \E p \in S : SendCallback(p)
    \/ \E p \in S : IntervalTimer(p)
    \/ \E p \in S : TimeoutTimer(p)
    \/ \E p \in S, buf \in bufs : UdpMessage(p, buf)
    \/ \E calls \in 1..MaxStopCalls : StopAllProbes(calls)

Step(S) == Sessions(S, DeviceTypeLists, Datagrams)

\* one startProbe call, with stopAllProbes called at any time
Next == Step({"p1"})

Spec == Init /\ [][Next]_vars

\* two concurrent startProbe calls, each for no type or for one, each
\* receiving one valid reply
NextSessions ==
    Sessions(Probes, {<<>>, SubSeq(DefaultDeviceTypes, 1, 1)},
             {d \in ValidDatagrams : d.XAddrs = <<"http://10.0.0.1/onvif">>})

SpecSessions == Init /\ [][NextSessions]_vars

(***************************************************************************)
(* soap.js and http-auth.js: one call, one step per event of its request   *)
(***************************************************************************)
LastResponse == responses[Len(responses)]

\* a call is made when no exchange is under way; an uncaught exception has
\* ended the process
CanCall ==
    /\ phase \notin {"waiting", "receiving"}
    /\ thrown = "none"
    /\ history.calls < MaxCalls

\* the calls made and the Authorization headers sent, the last call included
Earlier ==
    [calls |-> history.calls + 1,
     authorized |-> history.authorized
                        \cup {requests[i].headers[1][2] :
                                 i \in {j \in 1..Len(requests) :
                                           /\ call.client = "httpAuth"
                                           /\ requests[j].headers # NoHeader}}]

RequestCommand(methodName) ==
    /\ CanCall
    /\ call' = [client |-> "requestCommand", methodName |-> methodName, options |-> NoOptions]
    /\ requests' = <<buildSoapRequestPostParams("/onvif/device_service", methodName)>>
    /\ phase' = "waiting"
    /\ result' = HttpPending
    /\ responses' = <<>>
    /\ aborted' = FALSE
    /\ delivered' = <<>>
    /\ history' = Earlier
    /\ UNCHANGED thrown
    /\ UNCHANGED exceptHttp

\* 'response': the status line and headers have arrived
SoapResponse(response) ==
    /\ call.client = "requestCommand"
    /\ phase = "waiting"
    /\ responses' = Append(responses, response)
    /\ phase' = "receiving"
    /\ UNCHANGED <<call, requests, aborted, result, delivered, thrown, history>>
    /\ UNCHANGED exceptHttp

\* 'end' of the response
SoapEnd ==
    /\ call.client = "requestCommand"
    /\ phase = "receiving"
    /\ result' = soapResponseHandler(result, LastResponse, call.methodName)
    /\ phase' = "ended"
    /\ UNCHANGED <<call, requests, responses, aborted, delivered, thrown, history>>
    /\ UNCHANGED exceptHttp

\* 'timeout': HTTP_TIMEOUT of socket inactivity
SoapTimeout ==
    /\ call.client = "requestCommand"
    /\ phase \in {"waiting", "receiving"}
    /\ aborted' = TRUE
    /\ result' = abortRequest(result, phase = "receiving")
    /\ phase' = IF phase = "waiting" THEN "failed" ELSE "aborted"
    /\ UNCHANGED <<call, requests, responses, delivered, thrown, history>>
    /\ UNCHANGED exceptHttp

\* 'error' of the request: the network is lost
SoapNetworkError ==
    /\ call.client = "requestCommand"
    /\ phase \in {"waiting", "receiving"}
    /\ result' = Fail(result, [kind |-> "NetworkError", info |-> <<"ECONNRESET">>])
    /\ phase' = "failed"
    /\ UNCHANGED <<call, requests, responses, aborted, delivered, thrown, history>>
    /\ UNCHANGED exceptHttp

\* the callers of the http-auth client
HttpAuthCallers == {"httpAuth", "fetchSnapshot"}

\* after callback(res): fetchSnapshot's callback waits for the 'end' of the
\* response
Called == IF call.client = "fetchSnapshot" THEN "receiving" ELSE "done"

\* fetchSnapshot() of a device with this user and pass, whose current profile
\* has this snapshot URI
FetchSnapshot(user, pass, snapshot) ==
    /\ CanCall
    /\ call' = [client |-> "fetchSnapshot", methodName |-> "none",
                options |-> SnapshotOptions(user, pass, snapshot)]
    /\ IF snapshot = Undefined
       THEN /\ result' = Fail(HttpPending, [kind |-> "Error", info |-> <<"No snapshot">>])
            /\ requests' = <<>>
            /\ phase' = "failed"
       ELSE /\ result' = HttpPending
            /\ requests' = <<setRequestOptions(SnapshotOptions(user, pass, snapshot))>>
            /\ phase' = "waiting"
    /\ responses' = <<>>
    /\ aborted' = FALSE
    /\ delivered' = <<>>
    /\ history' = Earlier
    /\ UNCHANGED thrown
    /\ UNCHANGED exceptHttp

\* 'end' of the response fetchSnapshot's callback was called with
SnapshotEnd ==
    /\ call.client = "fetchSnapshot"
    /\ phase = "receiving"
    /\ LET res == delivered[1].response
           ct == IF res.contentType = Undefined THEN "image/jpeg" ELSE res.contentType
       IN  result' =
             IF res.statusCode = 200
             THEN IF ct = "image/jpeg"
                  THEN Fulfil(result, Tree("image"))
                  ELSE IF ct = "text/plain"
                       THEN Fail(result, [kind |-> "Error", info |-> <<"body">>])
                       ELSE Fail(result, [kind |-> "Error", info |-> <<"Unexpected data">>])
             ELSE Fail(result, [kind |-> "Error", info |-> <<"status">>])
    /\ phase' = "ended"
    /\ UNCHANGED <<call, requests, responses, aborted, delivered, thrown, history>>
    /\ UNCHANGED exceptHttp

AuthRequest(options) ==
    /\ CanCall
    /\ call' = [client |-> "httpAuth", methodName |-> "none", options |-> options]
    /\ requests' = <<setRequestOptions(options)>>
    /\ phase' = "waiting"
    /\ responses' = <<>>
    /\ aborted' = FALSE
    /\ result' = HttpNoFuture
    /\ delivered' = <<>>
    /\ history' = Earlier
    /\ UNCHANGED thrown
    /\ UNCHANGED exceptHttp

\* 'response' of the first request
AuthResponse(response) ==
    /\ call.client \in HttpAuthCallers
    /\ phase = "waiting"
    /\ Len(requests) = 1
    /\ responses' = Append(responses, response)
    /\ IF response.statusCode = 401 /\ response.challenge # NoChallenge
       THEN \E clientNonce \in ClientNonces :
              LET built == buildAuthHeaderString(parseAuthString(response.challenge),
                                                 requests[1].path, requests[1].method,
                                                 call.options.user, call.options.pass,
                                                 clientNonce)
              IN  IF built.threw
                  THEN /\ thrown' = "Error"
                       /\ phase' = "done"
                       /\ UNCHANGED <<requests, delivered>>
                  ELSE /\ requests' = Append(requests, retryRequest(requests[1], built.header))
                       /\ UNCHANGED <<phase, delivered, thrown>>
       ELSE /\ delivered' = <<[event |-> "response", response |-> response]>>
            /\ phase' = Called
            /\ UNCHANGED <<requests, thrown>>
    /\ UNCHANGED <<call, aborted, result, history>>
    /\ UNCHANGED exceptHttp

\* 'response' of the authenticated request: handed to the caller as it is
AuthRetryResponse(response) ==
    /\ call.client \in HttpAuthCallers
    /\ phase = "waiting"
    /\ Len(requests) = 2
    /\ responses' = Append(responses, response)
    /\ delivered' = <<[event |-> "response", response |-> response]>>
    /\ phase' = Called
    /\ UNCHANGED <<call, requests, aborted, result, thrown, history>>
    /\ UNCHANGED exceptHttp

\* 'error' of the first request: the caller listens on the returned request;
\* fetchSnapshot's listener rejects
AuthNetworkError ==
    /\ call.client \in HttpAuthCallers
    /\ phase = "waiting"
    /\ Len(requests) = 1
    /\ delivered' = <<[event |-> "error",
                       response |-> [statusCode |-> 0, challenge |-> NoChallenge,
                                     body |-> [raw |-> "empty", doc |-> JsNull],
                                     contentType |-> Undefined]]>>
    /\ phase' = IF call.client = "fetchSnapshot" THEN "failed" ELSE "done"
    /\ result' = IF call.client = "fetchSnapshot"
                 THEN Fail(result, [kind |-> "NetworkError", info |-> <<"ECONNRESET">>])
                 ELSE result
    /\ UNCHANGED <<call, requests, responses, aborted, thrown, history>>
    /\ UNCHANGED exceptHttp

\* 'error' of the authenticated request: it has no 'error' listener
AuthRetryNetworkError ==
    /\ call.client \in HttpAuthCallers
    /\ phase = "waiting"
    /\ Len(requests) = 2
    /\ thrown' = "UnhandledError"
    /\ phase' = "done"
    /\ UNCHANGED <<call, requests, responses, aborted, result, delivered, history>>
    /\ UNCHANGED exceptHttp

NextHttp ==
    \/ \E methodName \in MethodNames : RequestCommand(methodName)
    \/ \E response \in SoapResponses : SoapResponse(response)
    \/ SoapEnd
    \/ SoapTimeout
    \/ SoapNetworkError
    \/ \E options \in AuthOptions : AuthRequest(options)
    \/ \E user \in Users, pass \in Passwords, snapshot \in SnapshotUris :
          FetchSnapshot(user, pass, snapshot)
    \/ SnapshotEnd
    \/ \E response \in AuthResponses : AuthResponse(response)
    \/ \E response \in AuthResponses : AuthRetryResponse(response)
    \/ AuthNetworkError
    \/ AuthRetryNetworkError

SpecHttp == Init /\ [][NextHttp]_vars

(***************************************************************************)
(* device.js, service-device.js, service-media.js: the operations          *)
(***************************************************************************)
\* sendRequest of either service: the envelope _createRequestSoap builds
sendRequest(by, service, body, nonceBuffer) ==
    [by |-> by, now |-> clock, afterTimeQuery |-> deviceLog.answered,
     params |-> serviceParams(service, body),
     soap |-> createRequestSoap(serviceParams(service, body), clock, nonceBuffer)]

\* time passes
Tick ==
    /\ clock < MaxClock
    /\ clock' = clock + 1
    /\ UNCHANGED <<onvifDevice, envelope, deviceLog>>
    /\ UNCHANGED exceptDevice

\* new OnvifServiceDevice(xaddr, user, pass) with a valid xaddr; the
\* OnvifDevice holding it keeps the same credentials
NewOnvifServiceDevice(user, pass) ==
    /\ onvifDevice.device = NoService
    /\ onvifDevice' = [onvifDevice EXCEPT
                          !.user = user, !.pass = pass,
                          !.device = OnvifServiceDevice(user, pass)]
    /\ UNCHANGED <<clock, envelope, deviceLog>>
    /\ UNCHANGED exceptDevice

\* OnvifDevice.prototype.init: it calls _getSystemDateAndTime, where
\* services.device.getSystemDateAndTime(callback) sends the request, and
\* chains the other steps to the promise _getSystemDateAndTime returns
GetSystemDateAndTime ==
    /\ onvifDevice.device # NoService
    /\ onvifDevice.timeQuery = "none"
    /\ \E nonceBuffer \in NonceBuffers :
          envelope' = sendRequest("device", onvifDevice.device,
                                  "GetSystemDateAndTime", nonceBuffer)
    /\ onvifDevice' = [onvifDevice EXCEPT !.timeQuery = "sent"]
    /\ returned' = [returned EXCEPT !["_getSystemDateAndTime"] = "pending"]
    /\ init' = "pending"
    /\ UNCHANGED <<clock, deviceLog, transport, profile_list, unhandled>>
    /\ UNCHANGED exceptChain

\* the device answers the time query with its own clock: the promise of
\* getSystemDateAndTime() fulfils with the parsed answer; the method takes no
\* callback, so the function _getSystemDateAndTime passed to it never runs,
\* time_diff stays as it is and the promise of _getSystemDateAndTime stays
\* pending
SystemDateAndTimeResponse(skew) ==
    /\ onvifDevice.timeQuery = "sent"
    /\ onvifDevice' = [onvifDevice EXCEPT !.timeQuery = "answered"]
    /\ deviceLog' = [deviceLog EXCEPT
                        !.answered = TRUE,
                        !.learned = (clock + skew) - clock,
                        !.systemDateTime = parseSystemDateAndTime(clock + skew)]
    /\ UNCHANGED <<clock, envelope>>
    /\ UNCHANGED exceptDevice

\* the time query fails: the promise of getSystemDateAndTime() rejects
SystemDateAndTimeError ==
    /\ onvifDevice.timeQuery = "sent"
    /\ onvifDevice' = [onvifDevice EXCEPT !.timeQuery = "failed"]
    /\ UNCHANGED <<clock, envelope, deviceLog>>
    /\ UNCHANGED exceptDevice

\* a caller hands an answer of the time query to
\* services.device.setTimeDifference
SetTimeDifference ==
    /\ deviceLog.answered
    /\ onvifDevice' = [onvifDevice EXCEPT
                          !.device = setTimeDifference(@, deviceLog.systemDateTime, clock)]
    /\ UNCHANGED <<clock, envelope, deviceLog>>
    /\ UNCHANGED exceptDevice

\* OnvifDevice.prototype._getCapabilities: services.device.getCapabilities()
\* sends the request
GetCapabilities ==
    /\ onvifDevice.device # NoService
    /\ onvifDevice.capabilities = "none"
    /\ \E nonceBuffer \in NonceBuffers :
          envelope' = sendRequest("device", onvifDevice.device,
                                  "GetCapabilities", nonceBuffer)
    /\ onvifDevice' = [onvifDevice EXCEPT !.capabilities = "sent"]
    /\ transport' = [transport EXCEPT !["GetCapabilities"] = "sent"]
    /\ returned' = [returned EXCEPT !["_getCapabilities"] = "pending"]
    /\ UNCHANGED <<clock, deviceLog, init, profile_list, unhandled>>
    /\ UNCHANGED exceptChain

\* the capabilities arrive: with a Media XAddr among them the media service is
\* created with the OnvifDevice's time_diff
CapabilitiesResponse(hasMedia) ==
    /\ onvifDevice.capabilities = "sent"
    /\ onvifDevice' = [onvifDevice EXCEPT
                          !.capabilities = "answered",
                          !.media = IF hasMedia
                                    THEN OnvifServiceMedia(onvifDevice.user,
                                                           onvifDevice.pass,
                                                           onvifDevice.time_diff)
                                    ELSE @]
    /\ transport' = [transport EXCEPT !["GetCapabilities"] = "answered"]
    /\ returned' = [returned EXCEPT !["_getCapabilities"] = "resolved"]
    /\ UNCHANGED <<clock, envelope, deviceLog, init, profile_list, unhandled>>
    /\ UNCHANGED exceptChain

\* GetCapabilities fails: the catch of _getCapabilities throws 'Failed to
\* initialize the device: ...'
CapabilitiesError ==
    /\ onvifDevice.capabilities = "sent"
    /\ onvifDevice' = [onvifDevice EXCEPT !.capabilities = "failed"]
    /\ transport' = [transport EXCEPT !["GetCapabilities"] = "failed"]
    /\ returned' = [returned EXCEPT !["_getCapabilities"] = "rejected"]
    /\ UNCHANGED <<clock, envelope, deviceLog, init, profile_list, unhandled>>
    /\ UNCHANGED exceptChain

\* any later command of the device service
DeviceRequest ==
    /\ onvifDevice.device # NoService
    /\ \E nonceBuffer \in NonceBuffers :
          envelope' = sendRequest("device", onvifDevice.device,
                                  "GetDeviceInformation", nonceBuffer)
    /\ UNCHANGED <<clock, onvifDevice, deviceLog>>
    /\ UNCHANGED exceptDevice

\* any command of the media service
MediaRequest ==
    /\ onvifDevice.media # NoService
    /\ \E nonceBuffer \in NonceBuffers :
          envelope' = sendRequest("media", onvifDevice.media,
                                  "GetProfiles", nonceBuffer)
    /\ UNCHANGED <<clock, onvifDevice, deviceLog>>
    /\ UNCHANGED exceptDevice

NextDevice ==
    \/ Tick
    \/ \E user \in Users, pass \in Passwords : NewOnvifServiceDevice(user, pass)
    \/ GetSystemDateAndTime
    \/ \E skew \in Skews : SystemDateAndTimeResponse(skew)
    \/ SystemDateAndTimeError
    \/ SetTimeDifference
    \/ GetCapabilities
    \/ \E hasMedia \in BOOLEAN : CapabilitiesResponse(hasMedia)
    \/ CapabilitiesError
    \/ DeviceRequest
    \/ MediaRequest

SpecDevice == Init /\ [][NextDevice]_vars

(***************************************************************************)
(* device.js: the steps init() chains after the time query.  init() never  *)
(* gets to call them, so each is called on its own here.                   *)
(***************************************************************************)
\* OnvifDevice.prototype._getDeviceInformation: the request is sent and
\* nothing is returned
GetDeviceInformation ==
    /\ onvifDevice.device # NoService
    /\ transport["GetDeviceInformation"] = "none"
    /\ \E nonceBuffer \in NonceBuffers :
          envelope' = sendRequest("device", onvifDevice.device,
                                  "GetDeviceInformation", nonceBuffer)
    /\ transport' = [transport EXCEPT !["GetDeviceInformation"] = "sent"]
    /\ returned' = [returned EXCEPT !["_getDeviceInformation"] = Undefined]
    /\ UNCHANGED <<clock, onvifDevice, deviceLog, init, profile_list, unhandled>>
    /\ UNCHANGED exceptChain

\* the answer is stored in this.information
DeviceInformationResponse ==
    /\ transport["GetDeviceInformation"] = "sent"
    /\ transport' = [transport EXCEPT !["GetDeviceInformation"] = "answered"]
    /\ UNCHANGED <<deviceVars, init, returned, profile_list, unhandled>>
    /\ UNCHANGED exceptChain

\* the catch of _getDeviceInformation makes an Error and returns it
DeviceInformationError ==
    /\ transport["GetDeviceInformation"] = "sent"
    /\ transport' = [transport EXCEPT !["GetDeviceInformation"] = "failed"]
    /\ UNCHANGED <<deviceVars, init, returned, profile_list, unhandled>>
    /\ UNCHANGED exceptChain

\* OnvifDevice.prototype._mediaGetProfiles
MediaGetProfiles ==
    /\ onvifDevice.media # NoService
    /\ transport["GetProfiles"] = "none"
    /\ \E nonceBuffer \in NonceBuffers :
          envelope' = sendRequest("media", onvifDevice.media, "GetProfiles", nonceBuffer)
    /\ transport' = [transport EXCEPT !["GetProfiles"] = "sent"]
    /\ returned' = [returned EXCEPT !["_mediaGetProfiles"] = "pending"]
    /\ UNCHANGED <<clock, onvifDevice, deviceLog, init, profile_list, unhandled>>
    /\ UNCHANGED exceptChain

ProfilesResponse(profiles) ==
    /\ transport["GetProfiles"] = "sent"
    /\ transport' = [transport EXCEPT !["GetProfiles"] = "answered"]
    /\ profile_list' = IF Len(profiles) > 0 THEN profiles ELSE profile_list
    /\ returned' = [returned EXCEPT !["_mediaGetProfiles"] = "resolved"]
    /\ UNCHANGED <<deviceVars, init, unhandled>>
    /\ UNCHANGED exceptChain

\* the catch of _mediaGetProfiles makes an Error and returns it: the promise
\* the step returned is fulfilled with that Error
ProfilesError ==
    /\ transport["GetProfiles"] = "sent"
    /\ transport' = [transport EXCEPT !["GetProfiles"] = "failed"]
    /\ returned' = [returned EXCEPT !["_mediaGetProfiles"] = "resolved"]
    /\ UNCHANGED <<deviceVars, init, profile_list, unhandled>>
    /\ UNCHANGED exceptChain

\* OnvifDevice.prototype._mediaGetStreamURI: for every profile and protocol
\* _setProtocolSpecificStremaUriForProfile sends a request and returns
\* nothing, so both Promise.all are fulfilled in the same turn
MediaGetStreamURI ==
    /\ onvifDevice.device # NoService
    /\ returned["_mediaGetStreamURI"] = "none"
    /\ profile_list' = [i \in 1..Len(profile_list) |->
                           [profile_list[i] EXCEPT !.stream = "{}"]]
    /\ IF profile_list = <<>>
       THEN UNCHANGED <<envelope, transport>>
       ELSE /\ \E nonceBuffer \in NonceBuffers :
                  envelope' = sendRequest("media", onvifDevice.media,
                                          "GetStreamUri", nonceBuffer)
            /\ transport' = [c \in TransportCalls |->
                                IF \E i \in 1..Len(protocols) : protocols[i] = c
                                THEN "sent" ELSE transport[c]]
    /\ returned' = [returned EXCEPT !["_mediaGetStreamURI"] = "resolved"]
    /\ UNCHANGED <<clock, onvifDevice, deviceLog, init, unhandled>>
    /\ UNCHANGED exceptChain

\* a getStreamUri answer: profile.stream[protocol.toLowerCase()] is set
StreamUriResponse(protocol) ==
    /\ transport[protocol] = "sent"
    /\ transport' = [transport EXCEPT ![protocol] = "answered"]
    /\ profile_list' = [i \in 1..Len(profile_list) |->
                           [profile_list[i] EXCEPT ![toLowerCase(protocol)] = "uri"]]
    /\ UNCHANGED <<deviceVars, init, returned, unhandled>>
    /\ UNCHANGED exceptChain

\* a getStreamUri failure: the promise chained to it is rejected and nothing
\* holds it
StreamUriError(protocol) ==
    /\ transport[protocol] = "sent"
    /\ transport' = [transport EXCEPT ![protocol] = "failed"]
    /\ unhandled' = unhandled \cup {protocol}
    /\ UNCHANGED <<deviceVars, init, returned, profile_list>>
    /\ UNCHANGED exceptChain

\* OnvifDevice.prototype._mediaGetSnapshotUri
MediaGetSnapshotUri ==
    /\ onvifDevice.device # NoService
    /\ returned["_mediaGetSnapshotUri"] = "none"
    /\ IF profile_list = <<>>
       THEN /\ returned' = [returned EXCEPT !["_mediaGetSnapshotUri"] = "resolved"]
            /\ UNCHANGED <<envelope, transport>>
       ELSE /\ \E nonceBuffer \in NonceBuffers :
                  envelope' = sendRequest("media", onvifDevice.media,
                                          "GetSnapshotUri", nonceBuffer)
            /\ transport' = [transport EXCEPT !["GetSnapshotUri"] = "sent"]
            /\ returned' = [returned EXCEPT !["_mediaGetSnapshotUri"] = "pending"]
    /\ UNCHANGED <<clock, onvifDevice, deviceLog, init, profile_list, unhandled>>
    /\ UNCHANGED exceptChain

SnapshotUriResponse ==
    /\ transport["GetSnapshotUri"] = "sent"
    /\ transport' = [transport EXCEPT !["GetSnapshotUri"] = "answered"]
    /\ profile_list' = [i \in 1..Len(profile_list) |->
                           [profile_list[i] EXCEPT !.snapshot = "uri"]]
    /\ returned' = [returned EXCEPT !["_mediaGetSnapshotUri"] = "resolved"]
    /\ UNCHANGED <<deviceVars, init, unhandled>>
    /\ UNCHANGED exceptChain

SnapshotUriError ==
    /\ transport["GetSnapshotUri"] = "sent"
    /\ transport' = [transport EXCEPT !["GetSnapshotUri"] = "failed"]
    /\ returned' = [returned EXCEPT !["_mediaGetSnapshotUri"] = "rejected"]
    /\ UNCHANGED <<deviceVars, init, profile_list, unhandled>>
    /\ UNCHANGED exceptChain

NextInit ==
    \/ NewOnvifServiceDevice("admin", "secret")
    \/ GetSystemDateAndTime
    \/ \E skew \in Skews : SystemDateAndTimeResponse(skew)
    \/ SystemDateAndTimeError
    \/ GetCapabilities
    \/ \E hasMedia \in BOOLEAN : CapabilitiesResponse(hasMedia)
    \/ CapabilitiesError
    \/ GetDeviceInformation
    \/ DeviceInformationResponse
    \/ DeviceInformationError
    \/ MediaGetProfiles
    \/ \E profiles \in ProfileLists : ProfilesResponse(profiles)
    \/ ProfilesError
    \/ MediaGetStreamURI
    \/ \E i \in 1..Len(protocols) : StreamUriResponse(protocols[i])
    \/ \E i \in 1..Len(protocols) : StreamUriError(protocols[i])
    \/ MediaGetSnapshotUri
    \/ SnapshotUriResponse
    \/ SnapshotUriError

SpecInit == Init /\ [][NextInit]_vars

(***************************************************************************)
(* node-onvif.js: parseScopedData applied to the data of one ProbeMatch    *)
(***************************************************************************)
ParseScopedData(urn, xaddrs, scopes) ==
    /\ LET data == [urn |-> urn, xaddrs |-> xaddrs, scopes |-> scopes, types |-> <<>>]
       IN  scoped' = [data |-> data, result |-> parseScopedData(data)]
    /\ UNCHANGED exceptParser

NextScopes ==
    \E urn \in {"", "urn:uuid:1"}, xaddrs \in {<<>>, <<"http://10.0.0.1/onvif">>},
       scopes \in ScopeLists :
        ParseScopedData(urn, xaddrs, scopes)

SpecScopes == Init /\ [][NextScopes]_vars

(***************************************************************************)
(* Properties of the probe engine                                          *)
(***************************************************************************)
QueueLength(p) == DISCOVERY_RETRIES_MAX * Len(deviceTypes[p])

\* C1: once the overall timeout of a session has fired, the startProbe
\* future of that session is resolved, whatever replies arrived and however
\* many queued sends remain.
C1_ResolvedWhenTimeoutFires ==
    \A p \in Probes : "timeout" \in log[p].paths => future[p].state = "resolved"

C1_Witness ==
    \E p \in Probes :
        /\ "timeout" \in log[p].paths
        /\ future[p].state = "resolved"
        /\ soapRequests[p] # <<>>
        /\ Len(future[p].value) = 2

\* C2: the device map, and the list startProbe resolves with, hold exactly
\* one entry per distinct urn among the valid replies processed, in the
\* order the urns were first seen, and each entry carries the urn, xaddrs
\* and scopes of the first processed reply with that urn.
FirstReplies(list, first) ==
    /\ Len(list) = Len(first)
    /\ \A i \in 1..Len(list) :
          /\ list[i].urn = first[i].Address
          /\ list[i].xaddrs = Split(first[i].XAddrs, "")
          /\ list[i].scopes = Split(first[i].Scopes, EmptyScope)
    /\ \A i, j \in 1..Len(list) : i # j => list[i].urn # list[j].urn

C2_FirstReplyWins ==
    \A p \in Probes :
        /\ FirstReplies(createDeviceList(probe[p].devices), log[p].first)
        /\ future[p].state = "resolved" => FirstReplies(future[p].value, log[p].first)

C2_Witness ==
    \E p \in Probes :
        /\ future[p].state = "resolved"
        /\ Len(future[p].value) = 2
        /\ log[p].duplicate
        /\ \E i \in 1..2 : future[p].value[i].xaddrs = <<"http://10.0.0.9/onvif">>

\* C3: a session that stopAllProbes has torn down has no open socket and no
\* armed retry or timeout timer, and none becomes armed afterwards.
C3_StoppedSessionStaysDown ==
    \A p \in Probes :
        log[p].stopped =>
            /\ probe[p].udpSocket = "null"
            /\ probe[p].discovery_timeout_timer # "armed"
            /\ probe[p].discovery_interval_timer # "armed"

\* C4 as stated: a session with a non-empty device-type list is torn down by
\* the overall timeout alone (or by stopAllProbes), never by the send queue
\* running empty.
C4_TimeoutAlone ==
    \A p \in Probes :
        (Len(deviceTypes[p]) > 0 /\ probe[p].udpSocket = "null" /\ ~log[p].stopped)
            => "timeout" \in log[p].paths

\* C4 as amended: a session is completed by whichever comes first, the send
\* queue running empty (all DISCOVERY_RETRIES_MAX x n datagrams handed to the
\* socket) or the overall timeout; unless stopAllProbes closes it, its socket
\* stays open until then, and every valid reply processed before that is in
\* the resolved list.
C4_FirstOfQueueEmptyAndTimeout ==
    \A p \in Probes :
        /\ probe[p].udpSocket = "null" => (log[p].stopped \/ log[p].finishedBy # "none")
        /\ log[p].finishedBy \in {"none", "send", "timeout"}
        /\ log[p].finishedBy = "send" =>
              (soapRequests[p] = <<>> /\ log[p].sent = QueueLength(p))
        /\ future[p].state = "resolved" =>
              /\ log[p].finishedBy # "none"
              /\ \A i \in 1..Len(log[p].first) :
                    \E j \in 1..Len(future[p].value) :
                        future[p].value[j].urn = log[p].first[i].Address

C4_Witness ==
    \E p \in Probes :
        /\ log[p].finishedBy = "send"
        /\ ~log[p].stopped
        /\ Len(deviceTypes[p]) > 0
        /\ future[p].state = "resolved"
        /\ Len(future[p].value) = 2
        /\ "timeout" \notin log[p].paths

\* C5: once _finishProbe has torn a session down, the other path raises no
\* error and changes nothing: no uncaught exception, no second teardown with
\* an effect.
C5_TeardownOnce ==
    \A p \in Probes :
        (log[p].finishedBy # "none" /\ ~log[p].stopped) =>
            (uncaught[p] = "none" /\ ~log[p].lateEffect)

\* C10: after a failed bind the future is rejected with the bind error, no
\* timer of the session is or has been armed, and no datagram was sent.
C10_BindFailure ==
    \A p \in Probes :
        log[p].bindFailed =>
            /\ future[p].state = "rejected"
            /\ future[p].reason = "BindError"
            /\ probe[p].discovery_timeout_timer = "null"
            /\ probe[p].discovery_interval_timer = "null"
            /\ log[p].sent = 0
            /\ ~sendInFlight[p]
            /\ log[p].paths = {}

C10_Witness ==
    \E p \in Probes :
        /\ log[p].bindFailed
        /\ future[p].state = "rejected"
        /\ Len(deviceTypes[p]) > 0
        /\ probe[p].udpSocket = "null"

IsPrefix(s, t) == Len(s) <= Len(t) /\ s = SubSeq(t, 1, Len(s))

\* C11: a session has at most one UDP send outstanding; every send but the
\* first is made when the callback of the previous send has run and the
\* retry-interval timer that callback armed fires; the datagrams sent are, in
\* order, the head of the queue buildSoapRequests built, and what is left of
\* the queue is the rest of it.
C11_SequentialSends ==
    \A p \in Probes :
        /\ log[p].outstanding <= 1
        /\ log[p].outstanding = (IF sendInFlight[p] THEN 1 ELSE 0)
        /\ log[p].paced
        /\ Len(log[p].order) = log[p].sent
        /\ IsPrefix(log[p].order, buildSoapRequests(deviceTypes[p]))
        /\ (log[p].sent > 0 /\ uncaught[p] = "none")
              => log[p].order \o soapRequests[p] = buildSoapRequests(deviceTypes[p])
        /\ sendInFlight[p] => probe[p].discovery_interval_timer # "armed"

C11_Witness ==
    \E p \in Probes :
        /\ Len(deviceTypes[p]) = 2
        /\ log[p].sent = 3
        /\ sendInFlight[p]
        /\ log[p].order[3] = log[p].order[1]
        /\ log[p].order[2] # log[p].order[1]

\* C12: the queue built for n device types holds DISCOVERY_RETRIES_MAX x n
\* messages, the n per-type messages in the order of the types, repeated
\* DISCOVERY_RETRIES_MAX times; a session never hands more than that many
\* datagrams to its socket, whatever replies arrive.
C12_QueueIsTypesRepeated ==
    \A p \in Probes :
        LET n == Len(deviceTypes[p])
            q == log[p].order \o soapRequests[p]
        IN  /\ log[p].sent <= DISCOVERY_RETRIES_MAX * n
            /\ Len(log[p].order) = log[p].sent
            /\ (log[p].sent > 0 /\ uncaught[p] = "none")
                  => /\ Len(q) = DISCOVERY_RETRIES_MAX * n
                     /\ \A i \in 1..Len(q) :
                           /\ q[i].type = deviceTypes[p][((i - 1) % n) + 1]
                           /\ q[i] = q[((i - 1) % n) + 1]
                     /\ \A i, j \in 1..n : i # j => q[i] # q[j]

C12_Witness ==
    \E p \in Probes :
        /\ Len(deviceTypes[p]) = 2
        /\ log[p].sent = DISCOVERY_RETRIES_MAX * 2
        /\ soapRequests[p] = <<>>
        /\ Len(probe[p].devices) = 2
        /\ uncaught[p] = "none"

Challenged401(response) ==
    response.statusCode = 401 /\ response.challenge \in SupportedChallenges

HasResponseElement(response, methodName) ==
    /\ response.body.raw = "xml"
    /\ response.body.doc.type = "object"
    /\ "Body" \in response.body.doc.keys
    /\ response.body.doc.Body.type = "object"
    /\ HasEntry(response.body.doc.Body, ResponseKey(methodName))

C8_MissingElementIsUnsupported ==
    (/\ call.client = "requestCommand"
     /\ phase = "ended"
     /\ responses[1].statusCode = 200
     /\ responses[1].body.raw = "xml")
        => IF HasResponseElement(responses[1], call.methodName)
           THEN /\ result.state = "resolved"
                /\ result.value = Entry(responses[1].body.doc.Body,
                                        ResponseKey(call.methodName))
           ELSE /\ result.state = "rejected"
                /\ result.reason.kind = "UnsupportedOperation"

HasFault(response) ==
    /\ response.body.raw = "xml"
    /\ response.body.doc.type = "object"
    /\ "Body" \in response.body.doc.keys
    /\ response.body.doc.Body.type = "object"
    /\ HasEntry(response.body.doc.Body, FaultKey)
    /\ Entry(response.body.doc.Body, FaultKey).Reason # Missing

\* C14: a requestCommand call answered with a non-200 status and a Fault is
\* rejected as '401 Unauthorized' when the status is 400 and the Fault's
\* reason text contains 'Sender not authorized', and otherwise with the
\* response's own status and the Fault's reason (and detail, when it has one)
\* unchanged.
C14_FaultClassification ==
    (/\ call.client = "requestCommand"
     /\ phase = "ended"
     /\ responses[1].statusCode # 200
     /\ HasFault(responses[1]))
        => LET fault == Entry(responses[1].body.doc.Body, FaultKey)
               status == responses[1].statusCode
           IN  /\ result.state = "rejected"
               /\ result.reason.kind = "SoapError"
               /\ IF status = 400 /\ Includes(fault.Reason, NotAuthorized)
                  THEN result.reason.info = <<call.methodName, <<401, "Unauthorized">> >>
                  ELSE /\ Len(result.reason.info) = 4
                       /\ result.reason.info[2] = <<status, StatusMessage(status)>>
                       /\ result.reason.info[4] # <<>>
                       /\ result.reason.info[4][1] = fault.Reason
                       /\ fault.Detail # Missing => result.reason.info[4][2] = fault.Detail

\* the value of key="value" in the Authorization header of the retry
HasArg(header, key) == \E i \in 1..Len(header[2]) : header[2][i][1] = key

Arg(header, key) == header[2][CHOOSE i \in 1..Len(header[2]) : header[2][i][1] = key][2]

Authorization == requests[2].headers[1][2]

DigestRetry(qop, algorithms) ==
    /\ call.client = "httpAuth"
    /\ Len(requests) = 2
    /\ responses[1].challenge[1] = "Digest"
    /\ Param(responses[1].challenge, "qop") = qop
    /\ Param(responses[1].challenge, "algorithm") \in algorithms

\* C15: for a Digest challenge with qop=auth and algorithm absent or MD5 the
\* Authorization header of the retry carries nc = 00000001, a cnonce, and
\* response = MD5(HA1:nonce:nc:cnonce:qop:HA2) for that cnonce, with
\* HA1 = MD5(user:realm:pass) and HA2 = MD5(method:path); the header is a
\* function of the challenge, the request, the credentials and the cnonce.
C15_DigestAuthResponse ==
    DigestRetry("auth", {Undefined, "MD5"})
        => /\ Authorization[1] = "Digest"
           /\ HasArg(Authorization, "cnonce") /\ Arg(Authorization, "cnonce") \in ClientNonces
           /\ Arg(Authorization, "nc") = "00000001"
           /\ Arg(Authorization, "qop") = "auth"
           /\ Arg(Authorization, "response") =
                md5Hash(<<md5Hash(<<call.options.user, ":",
                                    Param(responses[1].challenge, "realm"), ":",
                                    call.options.pass>>), ":",
                          Param(responses[1].challenge, "nonce"), ":",
                          "00000001", ":", Arg(Authorization, "cnonce"), ":", "auth", ":",
                          md5Hash(<<requests[1].method, ":", requests[1].path>>)>>)

C15_Witness ==
    /\ DigestRetry("auth", {Undefined})
    /\ call.options.user = "admin"
    /\ Arg(Authorization, "cnonce") = "c2"
    /\ Len(responses) = 2 /\ responses[2].statusCode = 200

\* C16: for a Digest challenge with algorithm=MD5-sess (and qop=auth) the
\* response of the retry is computed with
\* HA1 = MD5(MD5(user:realm:pass):nonce:cnonce).
C16_SessionHa1 ==
    DigestRetry("auth", {"MD5-sess"})
        => Arg(Authorization, "response") =
            md5Hash(<<md5Hash(<<md5Hash(<<call.options.user, ":",
                                          Param(responses[1].challenge, "realm"), ":",
                                          call.options.pass>>), ":",
                                Param(responses[1].challenge, "nonce"), ":",
                                Arg(Authorization, "cnonce")>>), ":",
                      Param(responses[1].challenge, "nonce"), ":",
                      "00000001", ":", Arg(Authorization, "cnonce"), ":", "auth", ":",
                      md5Hash(<<requests[1].method, ":", requests[1].path>>)>>)

\* C17: for a 401 whose Digest challenge has qop=auth-int, building the
\* Authorization header throws: no header is produced, no second request is
\* sent, and nothing is handed to the caller's callback.
C17_AuthIntThrows ==
    (/\ call.client = "httpAuth"
     /\ responses # <<>>
     /\ responses[1].statusCode = 401
     /\ responses[1].challenge # NoChallenge
     /\ Param(responses[1].challenge, "qop") = "auth-int")
        => /\ \A clientNonce \in ClientNonces :
                LET built == buildAuthHeaderString(parseAuthString(responses[1].challenge),
                                                   requests[1].path, requests[1].method,
                                                   call.options.user, call.options.pass,
                                                   clientNonce)
                IN  built.threw /\ built.header = NoHeader
           /\ Len(requests) = 1
           /\ Len(responses) = 1
           /\ thrown = "Error"
           /\ delivered = <<>>
           /\ phase = "done"

C17_Witness ==
    /\ call.client = "httpAuth"
    /\ call.options.user = "admin"
    /\ Len(responses) = 1
    /\ responses[1].statusCode = 401
    /\ responses[1].challenge # NoChallenge
    /\ responses[1].challenge[1] = "Digest"
    /\ Param(responses[1].challenge, "qop") = "auth-int"
    /\ thrown = "Error"

\* C18: whatever calls were made before and whatever headers the caller's
\* options hold, the first request of a call carries no Authorization header;
\* an Authorization header is sent only in the second request of a call whose
\* own first response was a 401 with a challenge, and it answers that
\* challenge: same scheme, same server nonce, a cnonce drawn in this call.
C18_NoAuthStateCarried ==
    /\ call.client = "requestCommand"
          => \A i \in 1..Len(requests[1].headers) :
                requests[1].headers[i][1] # "Authorization"
    /\ call.client = "httpAuth"
          => /\ requests[1] =
                    [method |-> IF call.options.method = Undefined
                                THEN "GET" ELSE call.options.method,
                     path |-> call.options.path, headers |-> NoHeader]
             /\ Len(requests) = 2
                   => /\ responses # <<>>
                      /\ responses[1].statusCode = 401
                      /\ responses[1].challenge # NoChallenge
                      /\ Authorization[1] = responses[1].challenge[1]
                      /\ Authorization[1] = "Digest"
                            => /\ Arg(Authorization, "nonce") =
                                    Param(responses[1].challenge, "nonce")
                               /\ Param(responses[1].challenge, "qop") # Undefined
                                    => Arg(Authorization, "cnonce") \in ClientNonces

C18_Witness ==
    /\ history.calls = 2
    /\ \E h \in history.authorized : h[1] = "Digest" /\ Arg(h, "nonce") = "n0nce"
    /\ call.client = "httpAuth"
    /\ call.options.headers = StaleHeaders
    /\ Len(requests) = 2
    /\ Authorization[1] = "Digest"
    /\ Arg(Authorization, "nonce") = "n1"

(***************************************************************************)
(* Properties of the envelopes and the clock offset                        *)
(***************************************************************************)
\* C20: an envelope carries a UsernameToken exactly when a non-empty user name
\* is configured, and then, for the nonce and the Created value of that same
\* token, its Password is base64(sha1(nonce bytes, Created, password)) with
\* Created the time of building plus the clock offset handed in.
C20_UsernameToken ==
    envelope.by # "none" =>
        /\ (envelope.soap.Header # <<>>) <=> (envelope.params.user # "")
        /\ envelope.soap.Header # <<>> =>
              LET token == envelope.soap.Header[1]
              IN  /\ token.Username = envelope.params.user
                  /\ token.Created = ISOString(envelope.now + envelope.params.diff)
                  /\ \E nonceBuffer \in NonceBuffers :
                        /\ token.Nonce = Base64(nonceBuffer)
                        /\ token.Password =
                              Base64(sha1(<<nonceBuffer, token.Created,
                                            envelope.params.pass>>))

\* a signed envelope built by a service whose clock offset is not zero, at a
\* time that is not zero
C20_Witness ==
    /\ envelope.by # "none"
    /\ envelope.soap.Header # <<>>
    /\ envelope.params.diff # 0
    /\ envelope.params.pass # ""
    /\ envelope.now > 0

\* C19: once the time query of the initialization has been answered, every
\* signed envelope built afterwards, by the device service or by the media
\* service, has Created = local now + the offset the answer gave.
C19_LearnedOffsetUsed ==
    (envelope.afterTimeQuery /\ envelope.soap.Header # <<>>) =>
        envelope.soap.Header[1].Created = ISOString(envelope.now + deviceLog.learned)

(***************************************************************************)
(* Properties of the reply parser                                          *)
(***************************************************************************)
\* the last scope of the list that starts with onvif://www.onvif.org/<prefix>/
LastWithPrefix(scopes, prefix) ==
    LET at == {i \in 1..Len(scopes) : scopes[i].prefix = prefix}
    IN  IF at = {} THEN <<>>
        ELSE <<scopes[CHOOSE i \in at : \A j \in at : j <= i]>>

\* the last path segment of that scope, the empty string if there is none
FieldOf(scopes, prefix) ==
    IF LastWithPrefix(scopes, prefix) = <<>> THEN <<>>
    ELSE LET path == LastWithPrefix(scopes, prefix)[1].path
         IN  IF path = <<>> THEN <<>> ELSE path[Len(path)]

\* C21: in the data derived from a list of scope URIs, name is the last path
\* segment of the name scope with every underscore replaced by a space,
\* hardware and location are the last path segments of their scopes, and a
\* field whose prefix no scope has is the empty string; name/Foo_Bar and
\* hardware/X1 give name "Foo Bar", hardware "X1", location "".
C21_ScopeFields ==
    scoped.result # Null =>
        /\ scoped.result.hardware = FieldOf(scoped.data.scopes, "hardware")
        /\ scoped.result.location = FieldOf(scoped.data.scopes, "location")
        /\ LET name == FieldOf(scoped.data.scopes, "name")
           IN  /\ Len(scoped.result.name) = Len(name)
               /\ \A i \in 1..Len(name) :
                     scoped.result.name[i] = IF name[i] = "_" THEN " " ELSE name[i]
        /\ scoped.data.scopes = <<ScopeName, ScopeHardware>> =>
              /\ scoped.result.name = <<"F", " ", "B">>
              /\ scoped.result.hardware = <<"X", "1">>
              /\ scoped.result.location = <<>>

\* the list name/F_B, hardware/X1 has been parsed
C21_Witness ==
    /\ scoped.data.scopes = <<ScopeName, ScopeHardware>>
    /\ scoped.result # Null
    /\ scoped.result.name = <<"F", " ", "B">>

\* the datagram is not well-formed XML, or has no ProbeMatches/ProbeMatch
\* body with a urn, at least one xaddr and at least one scope
Unmatched(buf) ==
    \/ buf.xml = "malformed"
    \/ ~buf.ProbeMatches
    \/ "EndpointReference" \notin buf.keys \/ buf.Address = ""
    \/ "XAddrs" \notin buf.keys \/ buf.XAddrs = <<>>
    \/ "Scopes" \notin buf.keys \/ buf.Scopes = <<>>

\* C22: such a datagram is discarded: it leaves the session's device map,
\* timers, socket, send queue and future unchanged.
C22_UnmatchedDiscarded ==
    [][\A p \in Probes, buf \in Datagrams :
          (Unmatched(buf) /\ UdpMessage(p, buf)) =>
              UNCHANGED <<probe, soapRequests, sendInFlight, future>>]_vars

(***************************************************************************)
(* Properties of the device initialization                                 *)
(***************************************************************************)
\* the transport calls a step makes
CallsOf(step) ==
    CASE step = "_getCapabilities" -> {"GetCapabilities"}
      [] step = "_getDeviceInformation" -> {"GetDeviceInformation"}
      [] step = "_mediaGetProfiles" -> {"GetProfiles"}
      [] step = "_mediaGetStreamURI" -> {protocols[i] : i \in 1..Len(protocols)}
      [] step = "_mediaGetSnapshotUri" -> {"GetSnapshotUri"}
      [] OTHER -> {}

\* C23: when the transport call of an initialization step (GetCapabilities,
\* GetDeviceInformation, GetProfiles, GetStreamUri, GetSnapshotUri) has
\* failed, the step hands a rejected promise to the chain of init, so that
\* the future of init is rejected and never resolved.
C23_StepFailureRejects ==
    \A step \in StepNames :
        (\E c \in CallsOf(step) : transport[c] = "failed") =>
            /\ returned[step] = "rejected"
            /\ init # "resolved"

\* C27: once the time query of init has been answered or has failed, the
\* time-query step is complete: the promise _getSystemDateAndTime returned
\* is resolved, so that init goes on to the capabilities step and settles.
C27_TimeQueryStepCompletes ==
    (init # "none" /\ onvifDevice.timeQuery \in {"answered", "failed"}) =>
        returned["_getSystemDateAndTime"] = "resolved"

Quiescent(p) ==
    /\ uncaught[p] = "none"
    /\ probe[p].udpSocket = "null"
    /\ probe[p].discovery_timeout_timer # "armed"
    /\ probe[p].discovery_interval_timer # "armed"
    /\ ~sendInFlight[p]

\* C24: every startProbe future settles, also when stopAllProbes tore its
\* session down before it completed: a torn-down session of which nothing is
\* left to run has a resolved or rejected future.
C24_StoppedSessionSettles ==
    \A p \in Probes :
        (log[p].stopped /\ Quiescent(p)) => future[p].state \in {"resolved", "rejected"}

\* C25: no UDP send is attempted on a session whose socket has been closed
\* and set to null: sendSoapRequest never evaluates probe.udpSocket.send on
\* null, which would be a TypeError nothing catches.
C25_NoSendOnNullSocket ==
    \A p \in Probes : uncaught[p] # "TypeError"

\* C26: a session whose future has settled, resolved or rejected, is not in
\* the registry and its socket is closed.
C26_SettledSessionRemoved ==
    \A p \in Probes :
        future[p].state \in {"resolved", "rejected"} =>
            /\ p \notin activeProbes
            /\ probe[p].udpSocket = "null"

(***************************************************************************)
(* Properties of the futures of the transport calls                        *)
(***************************************************************************)
\* C29: the future of a requestCommand call settles whatever the course of
\* the exchange: once the exchange is over (the response has ended, the
\* request has failed, or the timeout has aborted it before or after the
\* response started) the future is resolved or rejected.
C29_RequestCommandSettles ==
    (call.client = "requestCommand" /\ phase \in {"ended", "failed", "aborted"}) =>
        result.state \in {"resolved", "rejected"}


\* C30: when a snapshot fetch is answered with 401 and a challenge, the
\* Authorization header of the authenticated retry is computed from the
\* device's configured user and password, and the fetchSnapshot future is
\* settled once the retry is over: after the 'end' of its response, whatever
\* the status, and after its network error.
C30_SnapshotRetryAuthorized ==
    (call.client = "fetchSnapshot" /\ Len(requests) = 2) =>
        /\ \E clientNonce \in ClientNonces :
              requests[2].headers =
                  << <<"Authorization",
                       buildAuthHeaderString(parseAuthString(responses[1].challenge),
                                             requests[1].path, requests[1].method,
                                             call.options.auth[1], call.options.auth[3],
                                             clientNonce).header>> >>
        /\ phase \in {"ended", "done"} => result.state \in {"resolved", "rejected"}

====
